---- MODULE Spec2Model ----
(***************************************************************************)
(* Event query/filter layer of the event-listing site.                     *)
(*                                                                         *)
(*   helpers/api-util  (src/pages/_document.js:38-140)                     *)
(*       getAllEvents, getFeaturedEvents, getEventById, getFilteredEvents  *)
(*   pages/events/[eventId].js   getStaticProps                            *)
(*   pages/events/[...slug].js   fetcher, FilteredEventsPage               *)
(*                                                                         *)
(* JavaScript values are encoded as follows.                               *)
(*   - a JSON scalar is the string of its JSON text: "true", "false",      *)
(*     "\"yes\"", ...; Absent stands for a property the object lacks.      *)
(*   - a number that may be NaN is a record [nan, v].                      *)
(*   - a date string "YYYY-MM-DD" is a record [kind |-> "iso", y, m, d];   *)
(*     kind "garbage" is a string Date cannot parse, kind "absent" a       *)
(*     record with no date property.                                      *)
(*   - a mapping (JSON object) is the sequence of its key/value entries    *)
(*     in for-in order.                                                    *)
(*   - time stamps are counted in minutes, not milliseconds.               *)
(***************************************************************************)
EXTENDS Integers, Sequences, FiniteSets, TLC

VARIABLES
    store,          \* the remote document behind /events.json
    tzOffset,       \* Date.prototype.getTimezoneOffset() of the runtime, minutes
    last,           \* the latest call of the api-util layer and its outcome
    slug,           \* router.query.slug of FilteredEventsPage
    swr,            \* what useSWR returns: data, error
    effectDue,      \* the [data] effect has a changed dependency to handle
    loadedEvents,   \* the useState cell of FilteredEventsPage
    needsRender,    \* a state or hook update is waiting for a render
    view            \* what the latest render of FilteredEventsPage returned

apiVars  == <<last>>
pageVars == <<slug, swr, effectDue, loadedEvents, needsRender, view>>
envVars  == <<store, tzOffset>>
vars     == <<store, tzOffset, last, slug, swr, effectDue, loadedEvents,
              needsRender, view>>

(***************************************************************************)
(* Bounds of the model.                                                    *)
(***************************************************************************)
MaxEvents == 2

(***************************************************************************)
(* JSON values.                                                            *)
(***************************************************************************)
Absent == "<absent>"

Truthy(v) == v \notin {Absent, "false", "null", "0", "\"\""}

AbsentDate == [kind |-> "absent", y |-> 0, m |-> 0, d |-> 0]
GarbageDate == [kind |-> "garbage", y |-> 0, m |-> 0, d |-> 0]
IsoDate(y, m, d) == [kind |-> "iso", y |-> y, m |-> m, d |-> d]

NaN == [nan |-> TRUE, v |-> 0]
Num(n) == [nan |-> FALSE, v |-> n]
StrictEq(a, b) == ~a.nan /\ ~b.nan /\ a.v = b.v

(***************************************************************************)
(* Date: new Date(string), getFullYear(), getMonth().                      *)
(* A date-only ISO string is parsed as midnight UTC; the getters report    *)
(* the fields of the local time, utc - getTimezoneOffset().                *)
(***************************************************************************)
MinutesPerDay == 1440

DaysFromCivil(y, m, d) ==
    LET yy  == IF m <= 2 THEN y - 1 ELSE y
        era == yy \div 400
        yoe == yy - era * 400
        mp  == IF m > 2 THEN m - 3 ELSE m + 9
        doy == (153 * mp + 2) \div 5 + d - 1
        doe == yoe * 365 + yoe \div 4 - yoe \div 100 + doy
    IN  era * 146097 + doe - 719468

CivilFromDays(z0) ==
    LET z   == z0 + 719468
        era == z \div 146097
        doe == z - era * 146097
        yoe == (doe - doe \div 1460 + doe \div 36524 - doe \div 146096) \div 365
        doy == doe - (365 * yoe + yoe \div 4 - yoe \div 100)
        mp  == (5 * doy + 2) \div 153
        d   == doy - (153 * mp + 2) \div 5 + 1
        m   == IF mp < 10 THEN mp + 3 ELSE mp - 9
        y   == yoe + era * 400 + (IF m <= 2 THEN 1 ELSE 0)
    IN  [y |-> y, m |-> m, d |-> d]

\* new Date(x): the time value in minutes since the epoch, or NaN
NewDate(date) ==
    IF date.kind = "iso"
    THEN Num(DaysFromCivil(date.y, date.m, date.d) * MinutesPerDay)
    ELSE NaN

LocalFields(t, tz) == CivilFromDays((t.v - tz) \div MinutesPerDay)

GetFullYear(t, tz) == IF t.nan THEN NaN ELSE Num(LocalFields(t, tz).y)

GetMonth(t, tz) == IF t.nan THEN NaN ELSE Num(LocalFields(t, tz).m - 1)

(***************************************************************************)
(* The remote document and the HTTP responses of its endpoint.             *)
(***************************************************************************)
Keys == {"e1", "e2", "e3"}

Record(id, date, isFeatured) ==
    [kind |-> "object", id |-> id, date |-> date, isFeatured |-> isFeatured]

\* the records a document may hold under a key; the last one carries an `id`
\* property of its own
Records ==
    { Record(Absent, IsoDate(2021, 5, 12), "true"),
      Record(Absent, IsoDate(2021, 5, 1), "false"),
      Record(Absent, GarbageDate, "\"yes\""),
      Record("e1", IsoDate(2021, 5, 12), "false") }

\* a JSON string as the value of a key, as in {"error": "Permission denied"}
StringValue == [kind |-> "string", id |-> Absent, date |-> AbsentDate,
                isFeatured |-> Absent]

Entries == [key : Keys, value : Records]

RECURSIVE SeqsUpTo(_, _)
SeqsUpTo(S, n) ==
    IF n = 0 THEN {<<>>}
    ELSE LET shorter == SeqsUpTo(S, n - 1)
         IN  shorter \cup {Append(s, x) : s \in shorter, x \in S}

DistinctKeys(es) ==
    \A i, j \in 1..Len(es) : es[i].key = es[j].key => i = j

NullBody == [isNull |-> TRUE, entries |-> <<>>]
ObjectBody(es) == [isNull |-> FALSE, entries |-> es]

Documents ==
    {NullBody} \cup
    {ObjectBody(es) : es \in {s \in SeqsUpTo(Entries, MaxEvents) : DistinctKeys(s)}}

ErrorBody == ObjectBody(<<[key |-> "error", value |-> StringValue]>>)

\* fetch(url): the promise rejects (net = FALSE) or resolves to a response
NetworkError == [net |-> FALSE, ok |-> FALSE, json |-> FALSE, body |-> NullBody]
Success(doc) == [net |-> TRUE, ok |-> TRUE, json |-> TRUE, body |-> doc]
Denied       == [net |-> TRUE, ok |-> FALSE, json |-> TRUE, body |-> ErrorBody]
ServerError  == [net |-> TRUE, ok |-> FALSE, json |-> FALSE, body |-> NullBody]

Fetch(doc) == {NetworkError, Success(doc), Denied, ServerError}

TzOffsets == {300, 0, -120}

(***************************************************************************)
(* api-util: getAllEvents and the three queries built on it.               *)
(***************************************************************************)
\* { id: key, ...data[key] }
SpreadEvent(key, value) ==
    [id         |-> IF value.id # Absent THEN value.id ELSE key,
     date       |-> value.date,
     isFeatured |-> value.isFeatured]

\* for (const key in data) events.push({ id: key, ...data[key] })
NormalizeEvents(body) ==
    [i \in 1..Len(body.entries) |->
        SpreadEvent(body.entries[i].key, body.entries[i].value)]

Threw == [threw |-> TRUE, list |-> <<>>]
Returned(list) == [threw |-> FALSE, list |-> list]

\* getAllEvents as it would be with Object.keys(data) in place of for-in:
\* a null body raises a TypeError
getAllEvents_KeysOfNull(resp) ==
    IF ~resp.net THEN Threw
    ELSE IF ~resp.json THEN Threw
    ELSE IF resp.body.isNull THEN Threw
    ELSE Returned(NormalizeEvents(resp.body))

getAllEvents(resp) ==
    IF ~resp.net THEN Threw
    ELSE IF ~resp.json THEN Threw
    ELSE Returned(NormalizeEvents(resp.body))

FeaturedTest(event) == Truthy(event.isFeatured)

getFeaturedEvents(resp) ==
    LET all == getAllEvents(resp)
    IN  IF all.threw THEN Threw
        ELSE Returned(SelectSeq(all.list, FeaturedTest))

NoEvent == [id |-> Absent, date |-> AbsentDate, isFeatured |-> Absent]

RECURSIVE FindFrom(_, _, _)
FindFrom(list, id, i) ==
    IF i > Len(list) THEN [found |-> FALSE, event |-> NoEvent]
    ELSE IF list[i].id = id THEN [found |-> TRUE, event |-> list[i]]
    ELSE FindFrom(list, id, i + 1)

\* Array.prototype.find: the first match, or undefined
Find(list, id) == FindFrom(list, id, 1)

getEventById(resp, id) ==
    LET all == getAllEvents(resp)
    IN  IF all.threw THEN [threw |-> TRUE, found |-> FALSE, event |-> NoEvent]
        ELSE LET r == Find(all.list, id)
             IN  [threw |-> FALSE, found |-> r.found, event |-> r.event]

DateTest(event, year, month, tz) ==
    LET eventDate == NewDate(event.date)
    IN  /\ StrictEq(GetFullYear(eventDate, tz), year)
        /\ StrictEq(GetMonth(eventDate, tz), IF month.nan THEN NaN ELSE Num(month.v - 1))

FilterByDate(list, year, month, tz) ==
    LET Test(event) == DateTest(event, year, month, tz)
    IN  SelectSeq(list, Test)

getFilteredEvents(resp, year, month, tz) ==
    LET all == getAllEvents(resp)
    IN  IF all.threw THEN Threw
        ELSE Returned(FilterByDate(all.list, Num(year), Num(month), tz))

\* getStaticProps as it would be without its `if (!event)` branch
getStaticProps_NoNotFound(resp, eventId) ==
    LET r == getEventById(resp, eventId)
    IN  [threw |-> r.threw, notFound |-> FALSE, selectedEvent |-> r.event]

\* pages/events/[eventId].js
getStaticProps(resp, eventId) ==
    LET r == getEventById(resp, eventId)
    IN  IF r.threw THEN [threw |-> TRUE, notFound |-> FALSE, selectedEvent |-> NoEvent]
        ELSE IF ~r.found THEN [threw |-> FALSE, notFound |-> TRUE, selectedEvent |-> NoEvent]
        ELSE [threw |-> FALSE, notFound |-> FALSE, selectedEvent |-> r.event]

(***************************************************************************)
(* Calls of the api-util layer.                                            *)
(***************************************************************************)
IdArgs == {"e1", "e2", "zz"}
YearArgs == {2021, 2022}
MonthArgs == {4, 5}

NoCall == [op |-> "none", resp |-> NetworkError, id |-> Absent, year |-> 0,
           month |-> 0, threw |-> FALSE, list |-> <<>>, found |-> FALSE,
           event |-> NoEvent, notFound |-> FALSE]

CallGetAllEvents ==
    \E resp \in Fetch(store) :
        LET r == getAllEvents(resp)
        IN  /\ last' = [NoCall EXCEPT !.op = "getAllEvents", !.resp = resp,
                                      !.threw = r.threw, !.list = r.list]
            /\ UNCHANGED <<envVars, pageVars>>

CallGetFeaturedEvents ==
    \E resp \in Fetch(store) :
        LET r == getFeaturedEvents(resp)
        IN  /\ last' = [NoCall EXCEPT !.op = "getFeaturedEvents", !.resp = resp,
                                      !.threw = r.threw, !.list = r.list]
            /\ UNCHANGED <<envVars, pageVars>>

CallGetEventById ==
    \E resp \in Fetch(store), id \in IdArgs :
        LET r == getEventById(resp, id)
        IN  /\ last' = [NoCall EXCEPT !.op = "getEventById", !.resp = resp,
                                      !.id = id, !.threw = r.threw,
                                      !.found = r.found, !.event = r.event]
            /\ UNCHANGED <<envVars, pageVars>>

CallGetFilteredEvents ==
    \E resp \in Fetch(store), year \in YearArgs, month \in MonthArgs :
        LET r == getFilteredEvents(resp, year, month, tzOffset)
        IN  /\ last' = [NoCall EXCEPT !.op = "getFilteredEvents", !.resp = resp,
                                      !.year = year, !.month = month,
                                      !.threw = r.threw, !.list = r.list]
            /\ UNCHANGED <<envVars, pageVars>>

CallGetStaticProps ==
    \E resp \in Fetch(store), id \in IdArgs :
        LET r == getStaticProps(resp, id)
        IN  /\ last' = [NoCall EXCEPT !.op = "getStaticProps", !.resp = resp,
                                      !.id = id, !.threw = r.threw,
                                      !.notFound = r.notFound,
                                      !.found = ~r.threw /\ ~r.notFound,
                                      !.event = r.selectedEvent]
            /\ UNCHANGED <<envVars, pageVars>>

(***************************************************************************)
(* pages/events/[...slug].js: FilteredEventsPage.                          *)
(***************************************************************************)
MinYear == 2021
MaxYear == 2030
MinMonth == 1
MaxMonth == 12

DigitChars == <<"0", "1", "2", "3", "4", "5", "6", "7", "8", "9">>
IsDigit(c) == \E i \in 1..10 : DigitChars[i] = c
DigitOf(c) == (CHOOSE i \in 1..10 : DigitChars[i] = c) - 1

RECURSIVE DecimalValue(_)
DecimalValue(cs) ==
    IF cs = <<>> THEN 0
    ELSE 10 * DecimalValue(SubSeq(cs, 1, Len(cs) - 1)) + DigitOf(cs[Len(cs)])

AllDigits(cs) == cs # <<>> /\ \A i \in 1..Len(cs) : IsDigit(cs[i])

\* unary plus on a string of characters: "" is 0, a signed decimal integer
\* literal is its value, anything else is NaN
StringToNumber(cs) ==
    IF cs = <<>> THEN Num(0)
    ELSE IF AllDigits(cs) THEN Num(DecimalValue(cs))
    ELSE IF cs[1] = "-" /\ AllDigits(Tail(cs)) THEN Num(0 - DecimalValue(Tail(cs)))
    ELSE IF cs[1] = "+" /\ AllDigits(Tail(cs)) THEN Num(DecimalValue(Tail(cs)))
    ELSE NaN

\* +filterData[i]; an index past the end reads undefined, and +undefined is NaN
SegmentNumber(segs, i) ==
    IF i <= Len(segs) THEN StringToNumber(segs[i]) ELSE NaN

YearSegs == { <<"2", "0", "2", "0">>, <<"2", "0", "2", "1">>,
              <<"2", "0", "3", "0">>, <<"2", "0", "3", "1">>, <<"a", "b", "c">> }
MonthSegs == { <<"0">>, <<"1">>, <<"4">>, <<"5">>, <<"1", "2">>, <<"1", "3">>,
               <<"-", "5">>, <<"m", "a", "y">> }

Slugs ==
    {<<y, <<"5">>>> : y \in YearSegs} \cup
    {<<<<"2", "0", "2", "1">>, m>> : m \in MonthSegs} \cup
    {<< <<"2", "0", "2", "1">> >>, << <<"a", "b", "c">>, <<"m", "a", "y">> >>}

NoSlug == [defined |-> FALSE, segs |-> <<>>]
SlugOf(segs) == [defined |-> TRUE, segs |-> segs]

NoData == [status |-> "pending", hasData |-> FALSE, data |-> NullBody,
           error |-> FALSE]

\* fetcher: a rejected fetch or a response that is not ok is an error
fetcher(resp) ==
    IF ~resp.net THEN [failed |-> TRUE, data |-> NullBody]
    ELSE IF ~resp.ok THEN [failed |-> TRUE, data |-> NullBody]
    ELSE IF ~resp.json THEN [failed |-> TRUE, data |-> NullBody]
    ELSE [failed |-> FALSE, data |-> resp.body]

\* useSWR: a failed request sets error and keeps the data it had; a
\* successful one sets data and clears error
useSWR(cur, resp) ==
    LET r == fetcher(resp)
    IN  IF r.failed
        THEN [cur EXCEPT !.status = "settled", !.error = TRUE]
        ELSE [status |-> "settled", hasData |-> TRUE, data |-> r.data,
              error |-> FALSE]

\* if (data): undefined and null are falsy, every object is truthy
DataTruthy(s) == s.hasData /\ ~s.data.isNull

Undefined == [defined |-> FALSE, list |-> <<>>]
Loaded(list) == [defined |-> TRUE, list |-> list]

View(kind, items, year, month) ==
    [kind |-> kind, items |-> items, numYear |-> year, numMonth |-> month]

\* the validation as it would be without its `numMonth > 12` test
InvalidFilter_NoMonthUpper(numYear, numMonth) ==
    \/ numYear.nan
    \/ numMonth.nan
    \/ numYear.v > MaxYear
    \/ numYear.v < MinYear
    \/ numMonth.v < MinMonth

InvalidFilter(numYear, numMonth) ==
    \/ numYear.nan
    \/ numMonth.nan
    \/ numYear.v > MaxYear
    \/ numYear.v < MinYear
    \/ numMonth.v < MinMonth
    \/ numMonth.v > MaxMonth

\* the value FilteredEventsPage returns, or the TypeError it throws when it
\* indexes an undefined filterData
RenderPage(loaded, filterData, tz) ==
    IF ~loaded.defined THEN View("Loading", <<>>, NaN, NaN)
    ELSE IF ~filterData.defined THEN View("TypeError", <<>>, NaN, NaN)
    ELSE LET numYear  == SegmentNumber(filterData.segs, 1)
             numMonth == SegmentNumber(filterData.segs, 2)
         IN  IF InvalidFilter(numYear, numMonth)
             THEN View("InvalidFilter", <<>>, numYear, numMonth)
             ELSE LET filteredEvents ==
                          FilterByDate(loaded.list, numYear, numMonth, tz)
                  IN  IF Len(filteredEvents) = 0
                      THEN View("NoEvents", filteredEvents, numYear, numMonth)
                      ELSE View("Results", filteredEvents, numYear, numMonth)

Mounted == view.kind # "TypeError"

\* the request of useSWR settles for the first time
FetchSettle ==
    /\ Mounted
    /\ swr.status = "pending"
    /\ \E resp \in Fetch(store) :
          /\ swr' = useSWR(swr, resp)
          /\ effectDue' = (swr'.hasData /\ (~swr.hasData \/ swr'.data # swr.data))
    /\ needsRender' = TRUE
    /\ UNCHANGED <<envVars, apiVars, slug, loadedEvents, view>>

\* useSWR requests again (focus, reconnect, retry after an error)
Revalidate ==
    /\ Mounted
    /\ swr.status = "settled"
    /\ \E resp \in Fetch(store) :
          /\ swr' = useSWR(swr, resp)
          /\ effectDue' = (effectDue \/
                           (swr'.hasData /\ (~swr.hasData \/ swr'.data # swr.data)))
    /\ needsRender' = (needsRender \/ swr' # swr)
    /\ UNCHANGED <<envVars, apiVars, slug, loadedEvents, view>>

\* hydration ends: the router fills router.query
RouterReady ==
    /\ Mounted
    /\ ~slug.defined
    /\ \E segs \in Slugs : slug' = SlugOf(segs)
    /\ needsRender' = TRUE
    /\ UNCHANGED <<envVars, apiVars, swr, effectDue, loadedEvents, view>>

\* React calls FilteredEventsPage again
Render ==
    /\ Mounted
    /\ needsRender
    /\ view' = RenderPage(loadedEvents, slug, tzOffset)
    /\ needsRender' = FALSE
    /\ UNCHANGED <<envVars, apiVars, slug, swr, effectDue, loadedEvents>>

\* useEffect(() => { if (data) { ... setLoadedEvents(events) } }, [data])
RunEffect ==
    /\ Mounted
    /\ ~needsRender
    /\ effectDue
    /\ effectDue' = FALSE
    /\ IF DataTruthy(swr)
       THEN /\ loadedEvents' = Loaded(NormalizeEvents(swr.data))
            /\ needsRender' = TRUE
       ELSE UNCHANGED <<loadedEvents, needsRender>>
    /\ UNCHANGED <<envVars, apiVars, slug, swr, view>>

(***************************************************************************)
(* Specifications.                                                         *)
(***************************************************************************)
EnvInit ==
    /\ store \in Documents
    /\ tzOffset \in TzOffsets

PageMount ==
    /\ swr = NoData
    /\ effectDue = FALSE
    /\ loadedEvents = Undefined
    /\ needsRender = FALSE
    /\ view = RenderPage(loadedEvents, slug, tzOffset)

\* the server side: api-util and getStaticProps
Init ==
    /\ EnvInit
    /\ last = NoCall
    /\ slug = NoSlug
    /\ PageMount

Next ==
    \/ CallGetAllEvents
    \/ CallGetFeaturedEvents
    \/ CallGetEventById
    \/ CallGetFilteredEvents
    \/ CallGetStaticProps

Spec == Init /\ [][Next]_vars

\* the client side: FilteredEventsPage, reached by a full page load (the
\* query is empty until hydration ends) or by router.push (the query is set)
PageInit ==
    /\ EnvInit
    /\ last = NoCall
    /\ slug \in {NoSlug} \cup {SlugOf(segs) : segs \in Slugs}
    /\ PageMount

PageNext ==
    \/ FetchSettle
    \/ Revalidate
    \/ RouterReady
    \/ Render
    \/ RunEffect

PageSpec == PageInit /\ [][PageNext]_vars

(***************************************************************************)
(* Properties of the api-util layer, checked under Spec.                   *)
(***************************************************************************)
\* what the latest call's getAllEvents() returned: the normalized body
AllOfLast == NormalizeEvents(last.resp.body)

FetchedOk == last.resp.net /\ last.resp.json

IdsOf(list) == {list[i].id : i \in 1..Len(list)}

\* C1: getFilteredEvents({year, month}) returns exactly the events of
\* getAllEvents() whose date string names calendar year `year` and calendar
\* month `month`, in the order of getAllEvents(); an event whose date does
\* not parse is left out.
C1_FilterMatchesCalendarMonth ==
    (last.op = "getFilteredEvents" /\ ~last.threw) =>
        LET OfMonth(e) == /\ e.date.kind = "iso"
                          /\ e.date.y = last.year
                          /\ e.date.m = last.month
        IN  last.list = SelectSeq(AllOfLast, OfMonth)

\* C2: getEventById(e.id) returns an event equal to e for every event e of
\* getAllEvents(), and not-found for an id no event of getAllEvents() has.
C2_ByIdReturnsEveryEvent ==
    (last.op = "getEventById" /\ ~last.threw) =>
        /\ \A i \in 1..Len(AllOfLast) :
              AllOfLast[i].id = last.id =>
                  last.found /\ last.event = AllOfLast[i]
        /\ last.id \notin IdsOf(AllOfLast) => ~last.found

\* C3: getFeaturedEvents() returns exactly the events of getAllEvents()
\* whose isFeatured equals true, in the same relative order.
C3_FeaturedIsExactlyTrue ==
    (last.op = "getFeaturedEvents" /\ ~last.threw) =>
        LET IsTrue(e) == e.isFeatured = "true"
        IN  last.list = SelectSeq(AllOfLast, IsTrue)

\* C4: the list one getAllEvents() call returns holds no two events with
\* the same id.
C4_IdsAreUnique ==
    (last.op = "getAllEvents" /\ ~last.threw) =>
        \A i, j \in 1..Len(last.list) :
            last.list[i].id = last.list[j].id => i = j

\* C5: getAllEvents() yields one event per key of the remote document, in
\* iteration order, with id equal to the key and the other fields those of
\* the value, also when the value has an id field of its own.
C5_IdIsTheKey ==
    (last.op = "getAllEvents" /\ ~last.threw) =>
        LET es == last.resp.body.entries
        IN  /\ Len(last.list) = Len(es)
            /\ \A i \in 1..Len(es) :
                  /\ last.list[i].id = es[i].key
                  /\ last.list[i].date = es[i].value.date
                  /\ last.list[i].isFeatured = es[i].value.isFeatured

\* C6: getAllEvents() and the three queries built on it fail whenever the
\* HTTP call errors or the response status is not a success.
C6_NonSuccessFails ==
    (/\ last.op \in {"getAllEvents", "getFeaturedEvents", "getEventById",
                     "getFilteredEvents"}
     /\ (~last.resp.net \/ ~last.resp.ok))
        => last.threw

\* the latest call got a successful response whose body is JSON null
NullResponse ==
    last.op # "none" /\ last.resp.net /\ last.resp.ok /\ last.resp.json
        /\ last.resp.body.isNull

\* C7: when the response body is JSON null, getAllEvents(),
\* getFeaturedEvents() and getFilteredEvents() return the empty list and
\* getEventById(id) returns not-found, none of them raising an error.
C7_NullBodyIsEmpty ==
    NullResponse =>
        /\ ~last.threw
        /\ last.list = <<>>
        /\ ~last.found

C7_Witness ==
    NullResponse /\ last.op = "getEventById" /\ last.id = "e1" /\ ~last.threw

BadYearSegs == { <<"2", "0", "2", "0">>, <<"2", "0", "3", "1">>, <<"a", "b", "c">> }
BadMonthSegs == { <<"0">>, <<"1", "3">>, <<"-", "5">>, <<"m", "a", "y">> }

BadSlug(segs) ==
    \/ Len(segs) < 2
    \/ segs[1] \in BadYearSegs
    \/ segs[2] \in BadMonthSegs

\* the latest render saw the current state
Rendered == Mounted /\ ~needsRender

\* C9: a render that reaches the event filter has a year in 2021..2030 and a
\* month in 1..12; with events loaded, a slug whose year or month is not a
\* number or is out of range renders 'Invalid filter', not a list and not
\* 'No events found'.
C9_FilterOnlyValidated ==
    /\ view.kind \in {"NoEvents", "Results"} =>
          /\ ~view.numYear.nan /\ ~view.numMonth.nan
          /\ view.numYear.v \in 2021..2030
          /\ view.numMonth.v \in 1..12
    /\ (Rendered /\ loadedEvents.defined /\ slug.defined /\ BadSlug(slug.segs))
          => view.kind = "InvalidFilter"

C9_Witness ==
    /\ Rendered
    /\ loadedEvents.defined
    /\ Len(loadedEvents.list) > 0
    /\ slug.defined
    /\ slug.segs = << <<"2", "0", "2", "1">>, <<"1", "3">> >>
    /\ view.kind = "InvalidFilter"

\* C10: once the fetch has settled, whatever its outcome, and the page has
\* handled it (no render and no effect is pending), the page no longer
\* shows 'Loading...'.
C10_SettledLeavesLoading ==
    (Rendered /\ ~effectDue /\ swr.status = "settled" /\ slug.defined)
        => view.kind # "Loading"

\* C11: whichever of the two arrives first, the router query or the fetched
\* data stored in loadedEvents, the page shows 'Loading...' as long as
\* router.query.slug is undefined: no render indexes filterData before the
\* query is there.
C11_LoadingUntilQueryReady ==
    ~slug.defined => view.kind = "Loading"

====
